---- MODULE Spec2Model ----
(***************************************************************************)
(* A model of the FDTD grid engine (src/fdtd/grid.py) and of its           *)
(* LineSource collaborator (src/fdtd/sources.py).                          *)
(*                                                                         *)
(* Numbers.  A python number is a pair <<tag, n>>: <<"int", n>> is the int *)
(* n, <<"float", q>> is the float q / Quantum, <<"none", 0>> is None.      *)
(* grid_spacing and timestep are floats too, held as a count of quanta, so *)
(* that distance / grid_spacing and time / timestep are exact rationals.   *)
(* Field entries are integers (courant_number = 1.0, permittivity = 1.0,   *)
(* integer-valued source amplitudes) or NaN, the IEEE not-a-number.        *)
(***************************************************************************)
EXTENDS Integers, Sequences, FiniteSets, TLC

\* ------------------------------------------------------------- bounds
\* quanta per unit: the float <<"float", q>> is q / Quantum
Quantum == 4
\* length of the x axis of the line-shaped grid
NLine == 10
\* edge of the cube-shaped grid
NCube == 2
\* the most timesteps a run of the model takes
MaxSteps == 2
\* the most entries of grid._sources
MaxSources == 2
\* the most entries of each of grid._boundaries, _objects, _detectors
MaxOthers == 1

\* ------------------------------------------------------------- numbers
IntN(n) == <<"int", n>>
FloatN(q) == <<"float", q>>
NoneN == <<"none", 0>>
IsInt(v) == v[1] = "int"
IsFloat(v) == v[1] = "float"
IsNone(v) == v[1] = "none"

Abs(a) == IF a < 0 THEN -a ELSE a
Max2(a, b) == IF a >= b THEN a ELSE b
Min2(a, b) == IF a <= b THEN a ELSE b

\* python's int(a / b) for b > 0: truncation toward zero
Trunc(a, b) == IF a >= 0 THEN a \div b ELSE -((-a) \div b)

\* Grid.grid_spacing and Grid.timestep, in quanta
GridSpacings == {Quantum \div 2, Quantum, 2 * Quantum}
grid_spacing == Quantum
timestep == Quantum

\* Grid._handle_distance, for a grid of spacing gs
HandleDistanceGs(distance, gs) ==
    IF ~IsInt(distance)
    THEN IntN(Trunc(2 * distance[2] + gs, 2 * gs))
    ELSE distance

_handle_distance(distance) == HandleDistanceGs(distance, grid_spacing)

\* Grid._handle_time, for a grid of timestep ts
HandleTimeTs(time, ts) ==
    IF ~IsInt(time)
    THEN IntN(Trunc(2 * time[2] + ts, 2 * ts))
    ELSE time

_handle_time(time) == HandleTimeTs(time, timestep)

\* the number of step() calls of Grid.run(total_time)
RunCount(total_time) ==
    LET n == IF IsFloat(total_time)
             THEN Trunc(total_time[2], timestep)
             ELSE total_time[2]
    IN  IF n > 0 THEN n ELSE 0

\* ------------------------------------------------------------- keys
\* An axis key: a scalar, a list of numbers, or a slice start:stop.
Scalar(v) == [t |-> "scalar", v |-> <<v>>, start |-> NoneN, stop |-> NoneN]
List(vs) == [t |-> "list", v |-> vs, start |-> NoneN, stop |-> NoneN]
Slice(a, b) == [t |-> "slice", v |-> <<>>, start |-> a, stop |-> b]
SliceNone == Slice(NoneN, NoneN)

\* Grid._handle_slice, for a grid of spacing gs (the step of the slice, which no
\* collaborator reads, is left out)
HandleSliceGs(s, gs) ==
    Slice(IF ~IsFloat(s.start) THEN s.start ELSE HandleDistanceGs(s.start, gs),
          IF ~IsFloat(s.stop) THEN s.stop ELSE HandleDistanceGs(s.stop, gs))

_handle_slice(s) == HandleSliceGs(s, grid_spacing)

\* Grid._handle_single_key
_handle_single_key(key) ==
    IF key.t = "list"
    THEN List([i \in 1..Len(key.v) |-> _handle_distance(key.v[i])])
    ELSE IF key.t = "slice"
    THEN _handle_slice(key)
    ELSE List(<<_handle_distance(key.v[1])>>)

\* ------------------------------------------------------------- fields
NaN == 1000000
IsNaN(a) == a = NaN
FAdd(a, b) == IF IsNaN(a) \/ IsNaN(b) THEN NaN ELSE a + b
FSub(a, b) == IF IsNaN(a) \/ IsNaN(b) THEN NaN ELSE a - b
FMul(a, b) == IF IsNaN(a) \/ IsNaN(b) THEN NaN ELSE a * b

courant_number == 1
inverse_permittivity == 1
inverse_permeability == 1

Entries(shp) ==
    (0..(shp[1] - 1)) \X (0..(shp[2] - 1)) \X (0..(shp[3] - 1)) \X (0..2)

\* bd.zeros((Nx, Ny, Nz, 3))
Zeros(shp) == [e \in Entries(shp) |-> 0]

\* one "F[.., 1:, ..] - F[.., :-1, ..]" term of a curl: the difference of component c
\* along axis ax between the entry e shifted by hi and by lo, where both exist
Diff(F, shp, e, ax, c, lo, hi) ==
    LET a == [e EXCEPT ![ax] = @ + hi, ![4] = c]
        b == [e EXCEPT ![ax] = @ + lo, ![4] = c]
    IN  IF a[ax] \in 0..(shp[ax] - 1) /\ b[ax] \in 0..(shp[ax] - 1)
        THEN <<TRUE, FSub(F[a], F[b])>>
        ELSE <<FALSE, 0>>

\* "acc (+|-)= term" on the entries the slice covers
Accum(acc, term, sign) ==
    IF term[1]
    THEN (IF sign > 0 THEN FAdd(acc, term[2]) ELSE FSub(acc, term[2]))
    ELSE acc

\* curl_E: forward differences
curl_E(F, shp) ==
    [e \in Entries(shp) |->
        IF e[4] = 0
        THEN Accum(Accum(0, Diff(F, shp, e, 2, 2, 0, 1), 1),
                   Diff(F, shp, e, 3, 1, 0, 1), -1)
        ELSE IF e[4] = 1
        THEN Accum(Accum(0, Diff(F, shp, e, 3, 0, 0, 1), 1),
                   Diff(F, shp, e, 1, 2, 0, 1), -1)
        ELSE Accum(Accum(0, Diff(F, shp, e, 1, 1, 0, 1), 1),
                   Diff(F, shp, e, 2, 0, 0, 1), -1)]

\* curl_H: backward differences
curl_H(F, shp) ==
    [e \in Entries(shp) |->
        IF e[4] = 0
        THEN Accum(Accum(0, Diff(F, shp, e, 2, 2, -1, 0), 1),
                   Diff(F, shp, e, 3, 1, -1, 0), -1)
        ELSE IF e[4] = 1
        THEN Accum(Accum(0, Diff(F, shp, e, 3, 0, -1, 0), 1),
                   Diff(F, shp, e, 1, 2, -1, 0), -1)
        ELSE Accum(Accum(0, Diff(F, shp, e, 1, 1, -1, 0), 1),
                   Diff(F, shp, e, 2, 0, -1, 0), -1)]

\* ------------------------------------------------------------- LineSource
\* The LineSource objects of the model and the attribute names they may carry.
SourceIds == {"s1", "s2"}
NoName == "none"
Names == {"src", "E"}

\* a LineSource as __init__ leaves it: grid = None, no x, y, z, no profile
NewSource(name, period) ==
    [name |-> name, period |-> period, grid |-> FALSE,
     hasxyz |-> FALSE, x |-> <<>>, y |-> <<>>, z |-> <<>>,
     hasprofile |-> FALSE, profile |-> <<>>]

\* Linspace with numpy's default endpoint=True: the m points reach b
LinspaceEndpoint(a, b, m) ==
    [i \in 1..m |-> IF m = 1 THEN a
                    ELSE Trunc(a * (m - 1) + (i - 1) * (b - a), m - 1)]

\* list(bd.array(bd.linspace(a, b, m, endpoint=False), bd.int)): m points from a
\* towards b, each cut to an integer toward zero
Linspace(a, b, m) == [i \in 1..m |-> Trunc(a * m + (i - 1) * (b - a), m)]

\* "if isinstance(x, list): x = slice(x[0], x[-1], None)"
ListToSlice(k) == IF k.t = "list" THEN Slice(k.v[1], k.v[Len(k.v)]) ELSE k

\* LineSource._handle_slices: [err, x, y, z], x, y, z the lists of cell indices
_handle_slices(x, y, z) ==
    IF x.t = "list" /\ y.t = "list" /\ z.t = "list"
    THEN IF Len(x.v) # Len(y.v) \/ Len(y.v) # Len(z.v) \/ Len(z.v) # Len(x.v)
         THEN [err |-> "IndexError", x |-> <<>>, y |-> <<>>, z |-> <<>>]
         ELSE [err |-> "ok",
               x |-> [i \in 1..Len(x.v) |-> x.v[i][2]],
               y |-> [i \in 1..Len(y.v) |-> y.v[i][2]],
               z |-> [i \in 1..Len(z.v) |-> z.v[i][2]]]
    ELSE LET xs == ListToSlice(x)
             ys == ListToSlice(y)
             zs == ListToSlice(z)
         IN  IF \E s \in {xs, ys, zs} : IsNone(s.start) \/ IsNone(s.stop)
             THEN [err |-> "TypeError", x |-> <<>>, y |-> <<>>, z |-> <<>>]
             ELSE LET x0 == xs.start[2]
                      x1 == xs.stop[2]
                      y0 == ys.start[2]
                      y1 == ys.stop[2]
                      z0 == zs.start[2]
                      z1 == zs.stop[2]
                      m == Max2(Abs(x1 - x0), Max2(Abs(y1 - y0), Abs(z1 - z0)))
                  IN  [err |-> "ok", x |-> Linspace(x0, x1, m),
                       y |-> Linspace(y0, y1, m), z |-> Linspace(z0, z1, m)]

\* numpy's index check on one axis of length n: -n <= i < n
InRange(i, n) == -n <= i /\ i < n
\* ... and the entry a (possibly negative) index names
Wrap(i, n) == IF i < 0 THEN i + n ELSE i

CellsInRange(xs, ys, zs, shp) ==
    /\ \A i \in 1..Len(xs) : InRange(xs[i], shp[1])
    /\ \A i \in 1..Len(ys) : InRange(ys[i], shp[2])
    /\ \A i \in 1..Len(zs) : InRange(zs[i], shp[3])

SeqMax(s) == CHOOSE m \in {s[i] : i \in 1..Len(s)} : \A i \in 1..Len(s) : s[i] <= m

\* self.vect: the squared distance of each cell to the cell of index L // 2
Vect(xs, ys, zs) ==
    LET mid == (Len(xs) \div 2) + 1
    IN  [i \in 1..Len(xs) |-> (xs[i] - xs[mid]) * (xs[i] - xs[mid])
                              + (ys[i] - ys[mid]) * (ys[i] - ys[mid])
                              + (zs[i] - zs[mid]) * (zs[i] - zs[mid])]

\* self.profile = exp(-vect ** 2 / (2 * (0.5 * vect.max()) ** 2)), normalised and
\* scaled by the amplitude.  With vect.max() = 0 (a source of one cell) the
\* quotient is 0 / 0 and every entry is NaN.  Otherwise the entries are positive
\* and decrease with vect; they are kept as the positive integers 1 + max - vect.
Profile(vect) ==
    LET mx == SeqMax(vect)
    IN  [i \in 1..Len(vect) |-> IF mx = 0 THEN NaN ELSE 1 + mx - vect[i]]

\* sin(2 * pi * q / period + phase_shift) with phase_shift = 0, as its sign:
\* exact (0, 1, 0, -1) for the periods 1, 2 and 4
Sin(q, period) ==
    LET r == q % period
    IN  IF 2 * r = 0 \/ 2 * r = period THEN 0
        ELSE IF 2 * r < period THEN 1 ELSE -1

\* RegisterName without the hasattr check: setattr whatever the grid has
RegisterNameOverwrite(id, name, at) ==
    IF name = NoName
    THEN [err |-> "ok", attrs |-> at]
    ELSE [err |-> "ok", attrs |-> [at EXCEPT ![name] = id]]

\* "if self.name is not None: if not hasattr(grid, self.name): setattr(...) else:
\* raise ValueError": [err, attrs]
RegisterName(id, name, at) ==
    IF name = NoName
    THEN [err |-> "ok", attrs |-> at]
    ELSE IF at[name] = "unset"
    THEN [err |-> "ok", attrs |-> [at EXCEPT ![name] = id]]
    ELSE [err |-> "ValueError", attrs |-> at]

\* LineSource._register_grid(grid, x, y, z) on the source record s of identity id,
\* with the grid's _sources list, attributes and shape:
\* [err, s, sources, attrs] after the call, err the exception it raised
RegisterSource(id, s, srcs, at, shp, x, y, z) ==
    LET s1 == [s EXCEPT !.grid = TRUE]
        srcs1 == Append(srcs, id)
        rn == RegisterName(id, s.name, at)
        hs == _handle_slices(x, y, z)
        s2 == [s1 EXCEPT !.hasxyz = TRUE, !.x = hs.x, !.y = hs.y, !.z = hs.z,
                         !.period = _handle_time(s.period)]
        s3 == [s2 EXCEPT !.hasprofile = TRUE,
                         !.profile = Profile(Vect(hs.x, hs.y, hs.z))]
    IN  IF rn.err # "ok"
        THEN [err |-> rn.err, s |-> s1, sources |-> srcs1, attrs |-> rn.attrs]
        ELSE IF hs.err # "ok"
        THEN [err |-> hs.err, s |-> s1, sources |-> srcs1, attrs |-> rn.attrs]
        ELSE IF ~CellsInRange(hs.x, hs.y, hs.z, shp) \/ Len(hs.x) = 0
        THEN [err |-> "IndexError", s |-> s2, sources |-> srcs1, attrs |-> rn.attrs]
        ELSE [err |-> "ok", s |-> s3, sources |-> srcs1, attrs |-> rn.attrs]

\* the loop of LineSource.update_E from its i-th cell on:
\* "for x, y, z, value in zip(...): self.grid.E[x, y, z, 2] += value"
RECURSIVE AddCells(_, _, _, _, _, _)
AddCells(F, s, shp, sn, i, n) ==
    IF i > n
    THEN [E |-> F, err |-> "ok"]
    ELSE IF ~(InRange(s.x[i], shp[1]) /\ InRange(s.y[i], shp[2])
              /\ InRange(s.z[i], shp[3]))
    THEN [E |-> F, err |-> "IndexError"]
    ELSE LET e == <<Wrap(s.x[i], shp[1]), Wrap(s.y[i], shp[2]),
                    Wrap(s.z[i], shp[3]), 2>>
         IN  AddCells([F EXCEPT ![e] = FAdd(@, FMul(s.profile[i], sn))],
                      s, shp, sn, i + 1, n)

\* LineSource.update_E at timestep q: [E, err]
SourceUpdateE(F, s, shp, q) ==
    IF ~s.hasprofile
    THEN [E |-> F, err |-> "AttributeError"]
    ELSE AddCells(F, s, shp, Sin(q, s.period[2]), 1,
                  Min2(Min2(Len(s.x), Len(s.y)), Min2(Len(s.z), Len(s.profile))))

\* update_H written as update_E is: the source adds itself to H as well
SourceUpdateHWrites(F, s, shp, q) ==
    IF ~s.hasprofile
    THEN [H |-> F, err |-> "ok"]
    ELSE [H |-> AddCells(F, s, shp, 1, 1, Min2(Len(s.x), Len(s.profile))).E,
          err |-> "ok"]

\* LineSource.update_H: pass
SourceUpdateH(F, s, shp, q) == [H |-> F, err |-> "ok"]

\* ------------------------------------------------------------- the grid
VARIABLES
    shape,             \* (Nx, Ny, Nz)
    E, H,              \* the fields, [Entries(shape) -> value]
    timesteps_passed,
    sources,           \* grid._sources: a list of collaborator identities
    boundaries,        \* grid._boundaries
    detectors,         \* grid._detectors
    objects,           \* grid._objects
    attrs,             \* the grid's attribute of each name: "unset", "builtin" or
                       \* the identity of the collaborator setattr put there
    src,               \* the LineSource objects, by identity
    call,              \* the last call made on the grid, with its arguments
    ret,               \* "ok", or the exception the last call raised
    trace,             \* the hook calls of the last step() made, in order
    zeroed,            \* reset() was the last call that was not a step
    stepcalls,         \* the step() calls made since construction or the last reset()
    resolved           \* the last call of the coordinate resolver: the grid's
                       \* spacing, the argument and the result

vars == <<shape, E, H, timesteps_passed, sources, boundaries, detectors, objects,
          attrs, src, call, ret, trace, zeroed, stepcalls,
          resolved>>

\* the boundary, object and detector of the model: collaborators whose classes
\* are outside the source; their hooks are recorded in the trace and nothing else
OtherIds == {"b1", "o1", "d1"}
KindOf(c) == IF c = "b1" THEN "boundary" ELSE IF c = "o1" THEN "object"
             ELSE IF c = "d1" THEN "detector" ELSE "source"

Shapes == {<<NLine, 1, 1>>, <<NCube, NCube, NCube>>}

\* the keys of grid[key] = c; tuple = FALSE is a key that is no tuple
Key(ks) == [tuple |-> TRUE, k |-> ks]
LineKey == Key(<<Slice(IntN(0), IntN(10)), Scalar(IntN(0)), Scalar(IntN(0))>>)
PointKey == Key(<<Scalar(IntN(1)), Scalar(IntN(0)), Scalar(IntN(0))>>)
DiagKey == Key(<<Slice(FloatN(0), FloatN(2 * Quantum)), Slice(IntN(0), IntN(2)),
                 Slice(IntN(0), IntN(2))>>)
ListKey == Key(<<List(<<IntN(0), FloatN(Quantum)>>), List(<<IntN(0)>>),
                 List(<<IntN(0)>>)>>)
OneAxisKey == Key(<<Slice(IntN(0), IntN(2))>>)
TwoAxisKey == Key(<<Scalar(IntN(0)), Scalar(IntN(0))>>)
BareKey == [tuple |-> FALSE, k |-> <<Scalar(IntN(1))>>]
FourAxisKey == Key(<<Scalar(IntN(0)), Scalar(IntN(0)), Scalar(IntN(0)),
                     Scalar(IntN(0))>>)
Keys == {LineKey, PointKey, DiagKey, ListKey, OneAxisKey, TwoAxisKey, BareKey,
         FourAxisKey}

NoResolve(gs) == [op |-> "none", spacing |-> gs, arg |-> NoneN, out |-> NoneN]

NoCall == [op |-> "init", who |-> "none", key |-> Key(<<>>), arg |-> NoneN]

InitGrid ==
    /\ shape \in Shapes
    /\ E = Zeros(shape)
    /\ H = Zeros(shape)
    /\ timesteps_passed = 0
    /\ sources = <<>>
    /\ boundaries = <<>>
    /\ detectors = <<>>
    /\ objects = <<>>
    /\ attrs = [n \in Names |-> IF n = "E" THEN "builtin" ELSE "unset"]
    /\ \E n2 \in {NoName} \cup Names :
          src = [id \in SourceIds |->
                   IF id = "s1" THEN NewSource("src", IntN(4))
                   ELSE NewSource(n2, FloatN(4 * Quantum - 2))]
    /\ call = NoCall
    /\ ret = "ok"
    /\ trace = <<>>
    /\ zeroed = FALSE
    /\ stepcalls = 0

Init == InitGrid /\ resolved = NoResolve(grid_spacing)

\* --------------------------------------------------------------- step
Hooks(coll, h) == [i \in 1..Len(coll) |-> <<h, coll[i]>>]

\* "for src in self._sources: src.update_E()" from the i-th source on:
\* [E, err, n], n the number of sources whose hook was called
RECURSIVE SourcesUpdateE(_, _, _)
SourcesUpdateE(F, i, q) ==
    IF i > Len(sources)
    THEN [E |-> F, err |-> "ok", n |-> Len(sources)]
    ELSE LET r == IF sources[i] \in SourceIds
                  THEN SourceUpdateE(F, src[sources[i]], shape, q)
                  ELSE [E |-> F, err |-> "ok"]
         IN  IF r.err # "ok"
             THEN [E |-> r.E, err |-> r.err, n |-> i]
             ELSE SourcesUpdateE(r.E, i + 1, q)

\* "for src in self._sources: src.update_H()": [H, err]
RECURSIVE SourcesUpdateH(_, _, _)
SourcesUpdateH(F, i, q) ==
    IF i > Len(sources)
    THEN [H |-> F, err |-> "ok"]
    ELSE LET r == IF sources[i] \in SourceIds
                  THEN SourceUpdateH(F, src[sources[i]], shape, q)
                  ELSE [H |-> F, err |-> "ok"]
         IN  IF r.err # "ok" THEN r ELSE SourcesUpdateH(r.H, i + 1, q)

\* "self.E += self.courant_number * self.inverse_permittivity * curl"
GridUpdateE(FE, FH) ==
    LET curl == curl_H(FH, shape)
    IN  [e \in Entries(shape) |->
            FAdd(FE[e], FMul(courant_number * inverse_permittivity, curl[e]))]

\* "self.H -= self.courant_number * self.inverse_permeability * curl"
GridUpdateH(FE, FH) ==
    LET curl == curl_E(FE, shape)
    IN  [e \in Entries(shape) |->
            FSub(FH[e], FMul(courant_number * inverse_permeability, curl[e]))]

\* update_E with the sources called before the boundaries' second pass
update_E_SourcesFirst(FE, FH, q) ==
    LET r == SourcesUpdateE(GridUpdateE(FE, FH), 1, q)
    IN  [E |-> r.E, err |-> r.err,
         trace |-> Hooks(boundaries, "update_phi_E") \o <<<<"E += curl_H", "grid">>>>
                   \o Hooks(objects, "update_E")
                   \o SubSeq(Hooks(sources, "update_E"), 1, r.n)
                   \o Hooks(boundaries, "update_E")
                   \o (IF r.err = "ok" THEN Hooks(detectors, "detect_E") ELSE <<>>)]

\* Grid.update_E at timestep q: [E, err, trace]
update_E(FE, FH, q) ==
    LET r == SourcesUpdateE(GridUpdateE(FE, FH), 1, q)
    IN  [E |-> r.E, err |-> r.err,
         trace |-> Hooks(boundaries, "update_phi_E") \o <<<<"E += curl_H", "grid">>>>
                   \o Hooks(objects, "update_E") \o Hooks(boundaries, "update_E")
                   \o SubSeq(Hooks(sources, "update_E"), 1, r.n)
                   \o (IF r.err = "ok" THEN Hooks(detectors, "detect_E") ELSE <<>>)]

\* Grid.update_H at timestep q: [H, err, trace]
update_H(FE, FH, q) ==
    [H |-> SourcesUpdateH(GridUpdateH(FE, FH), 1, q).H, err |-> "ok",
     trace |-> Hooks(boundaries, "update_phi_H") \o <<<<"H -= curl_E", "grid">>>>
               \o Hooks(objects, "update_H") \o Hooks(boundaries, "update_H")
               \o Hooks(sources, "update_H") \o Hooks(detectors, "detect_H")]

\* Grid.step: [E, H, t, err, trace]
step(FE, FH, q) ==
    LET ue == update_E(FE, FH, q)
        uh == update_H(ue.E, FH, q)
    IN  IF ue.err # "ok"
        THEN [E |-> ue.E, H |-> FH, t |-> q, err |-> ue.err, trace |-> ue.trace]
        ELSE [E |-> ue.E, H |-> uh.H, t |-> q + 1, err |-> "ok",
              trace |-> ue.trace \o uh.trace \o <<<<"timesteps_passed += 1", "grid">>>>]

\* "for _ in time: self.step()", k steps to go; StepsAfter goes on after a step
\* that left r, and stops at the step that raised
RECURSIVE steps(_, _, _, _, _)
StepsAfter(r, k) == IF r.err # "ok" THEN r ELSE steps(r.E, r.H, r.t, k, r.trace)
steps(FE, FH, q, k, tr) ==
    IF k = 0
    THEN [E |-> FE, H |-> FH, t |-> q, err |-> "ok", trace |-> tr]
    ELSE StepsAfter(step(FE, FH, q), k - 1)

Step ==
    /\ stepcalls < MaxSteps
    /\ stepcalls' = stepcalls + 1
    /\ LET r == step(E, H, timesteps_passed)
       IN  /\ E' = r.E
           /\ H' = r.H
           /\ timesteps_passed' = r.t
           /\ ret' = r.err
           /\ trace' = r.trace
    /\ call' = [NoCall EXCEPT !.op = "step"]
    /\ UNCHANGED <<shape, resolved, sources, boundaries, detectors, objects, attrs, src, zeroed>>

RunTimes == {IntN(0), IntN(2), FloatN(Quantum \div 2), FloatN(Quantum + 1),
             FloatN(2 * Quantum - 1)}

\* Grid.run(total_time, progress_bar=False)
Run(total_time) ==
    /\ stepcalls + RunCount(total_time) <= MaxSteps
    /\ LET r == steps(E, H, timesteps_passed, RunCount(total_time), <<>>)
       IN  /\ stepcalls' = stepcalls + (r.t - timesteps_passed)
                                     + (IF r.err # "ok" THEN 1 ELSE 0)
           /\ E' = r.E
           /\ H' = r.H
           /\ timesteps_passed' = r.t
           /\ ret' = r.err
           /\ trace' = r.trace
    /\ call' = [NoCall EXCEPT !.op = "run", !.arg = total_time]
    /\ UNCHANGED <<shape, resolved, sources, boundaries, detectors, objects, attrs, src, zeroed>>

\* "F *= 0.0"
TimesZero(F) == [e \in DOMAIN F |-> FMul(F[e], 0)]

\* Grid.reset
Reset ==
    /\ H' = TimesZero(H)
    /\ E' = TimesZero(E)
    /\ timesteps_passed' = timesteps_passed * 0
    /\ call' = [NoCall EXCEPT !.op = "reset"]
    /\ ret' = "ok"
    /\ trace' = <<>>
    /\ zeroed' = TRUE
    /\ stepcalls' = 0
    /\ UNCHANGED <<shape, resolved, sources, boundaries, detectors, objects, attrs, src>>

\* --------------------------------------------------------------- attachment
Coll(kind) == IF kind = "source" THEN sources ELSE IF kind = "boundary" THEN boundaries
              ELSE IF kind = "detector" THEN detectors ELSE objects

\* the registration callback of a boundary, object or detector: as LineSource
\* does, it enters itself in the grid's collection of its kind
RegisterOther(c, coll) == Append(coll, c)

\* the three per-axis keys __setitem__ hands to the callback
AxisKey(key, i) == IF i <= Len(key.k) THEN key.k[i] ELSE SliceNone

\* Grid.__setitem__: grid[key] = c
SetItem(key, c) ==
    /\ Len(Coll(KindOf(c))) < (IF c \in SourceIds THEN MaxSources ELSE MaxOthers)
    /\ call' = [NoCall EXCEPT !.op = "setitem", !.who = c, !.key = key]
    /\ trace' = <<>>
    /\ zeroed' = FALSE
    /\ IF Len(key.k) > 3
       THEN /\ ret' = "KeyError"
            /\ UNCHANGED <<sources, boundaries, detectors, objects, attrs, src>>
       ELSE LET x == _handle_single_key(AxisKey(key, 1))
                y == _handle_single_key(AxisKey(key, 2))
                z == _handle_single_key(AxisKey(key, 3))
            IN  IF c \in SourceIds
                THEN LET r == RegisterSource(c, src[c], sources, attrs, shape, x, y, z)
                     IN  /\ ret' = r.err
                         /\ src' = [src EXCEPT ![c] = r.s]
                         /\ sources' = r.sources
                         /\ attrs' = r.attrs
                         /\ UNCHANGED <<boundaries, detectors, objects>>
                ELSE /\ ret' = "ok"
                     /\ boundaries' = IF KindOf(c) = "boundary"
                                      THEN RegisterOther(c, boundaries) ELSE boundaries
                     /\ detectors' = IF KindOf(c) = "detector"
                                     THEN RegisterOther(c, detectors) ELSE detectors
                     /\ objects' = IF KindOf(c) = "object"
                                   THEN RegisterOther(c, objects) ELSE objects
                     /\ UNCHANGED <<sources, attrs, src>>
    /\ UNCHANGED <<shape, resolved, E, H, timesteps_passed, stepcalls>>

\* the names add_*(name, c) is called with: the string "src" and the int 0
StrN == <<"str", 0>>
AddNames == {StrN, IntN(0)}

\* "coll[name] = c" on a python list: [err, coll]
ListAssign(coll, name, c) ==
    IF ~IsInt(name)
    THEN [err |-> "TypeError", coll |-> coll]
    ELSE IF ~InRange(name[2], Len(coll))
    THEN [err |-> "IndexError", coll |-> coll]
    ELSE [err |-> "ok", coll |-> [coll EXCEPT ![Wrap(name[2], Len(coll)) + 1] = c]]

\* the body the four add_* methods share, on the collection coll:
\* "c._register_grid(self); coll[name] = c".  A LineSource's callback takes
\* x, y and z too, so the call with the grid alone raises TypeError.
AddTo(coll, name, c) ==
    IF c \in SourceIds
    THEN [err |-> "TypeError", coll |-> coll]
    ELSE ListAssign(RegisterOther(c, coll), name, c)

\* Grid.add_source
add_source(name, c) ==
    /\ Len(sources) < MaxSources
    /\ LET r == AddTo(sources, name, c)
       IN  ret' = r.err /\ sources' = r.coll
    /\ call' = [NoCall EXCEPT !.op = "add_source", !.who = c, !.arg = name]
    /\ trace' = <<>>
    /\ zeroed' = FALSE
    /\ UNCHANGED <<shape, resolved, E, H, timesteps_passed, stepcalls, boundaries, detectors, objects,
                   attrs, src>>

\* Grid.add_boundary
add_boundary(name, c) ==
    /\ Len(boundaries) < MaxOthers
    /\ LET r == AddTo(boundaries, name, c)
       IN  ret' = r.err /\ boundaries' = r.coll
    /\ call' = [NoCall EXCEPT !.op = "add_boundary", !.who = c, !.arg = name]
    /\ trace' = <<>>
    /\ zeroed' = FALSE
    /\ UNCHANGED <<shape, resolved, E, H, timesteps_passed, stepcalls, sources, detectors, objects,
                   attrs, src>>

\* Grid.add_detector
add_detector(name, c) ==
    /\ Len(detectors) < MaxOthers
    /\ LET r == AddTo(detectors, name, c)
       IN  ret' = r.err /\ detectors' = r.coll
    /\ call' = [NoCall EXCEPT !.op = "add_detector", !.who = c, !.arg = name]
    /\ trace' = <<>>
    /\ zeroed' = FALSE
    /\ UNCHANGED <<shape, resolved, E, H, timesteps_passed, stepcalls, sources, boundaries, objects,
                   attrs, src>>

\* Grid.add_object
add_object(name, c) ==
    /\ Len(objects) < MaxOthers
    /\ LET r == AddTo(objects, name, c)
       IN  ret' = r.err /\ objects' = r.coll
    /\ call' = [NoCall EXCEPT !.op = "add_object", !.who = c, !.arg = name]
    /\ trace' = <<>>
    /\ zeroed' = FALSE
    /\ UNCHANGED <<shape, resolved, E, H, timesteps_passed, stepcalls, sources, boundaries, detectors,
                   attrs, src>>

Next ==
    \/ Step
    \/ \E total_time \in RunTimes : Run(total_time)
    \/ Reset
    \/ \E key \in Keys, c \in SourceIds : SetItem(key, c)
    \/ \E name \in AddNames : add_source(name, "s1")

Spec == Init /\ [][Next]_vars

\* The grid with a boundary, an object and a detector beside the source s1.
HookKeys == {PointKey, DiagKey, FourAxisKey}

InitHooks == Init /\ shape = <<NCube, NCube, NCube>> /\ src["s2"].name = NoName

NextHooks ==
    \/ Step
    \/ Reset
    \/ \E key \in HookKeys, c \in {"s1"} \cup OtherIds : SetItem(key, c)
    \/ \E name \in AddNames : add_source(name, "s1")
    \/ \E name \in AddNames : add_boundary(name, "b1")
    \/ \E name \in AddNames : add_detector(name, "d1")
    \/ \E name \in AddNames : add_object(name, "o1")

SpecHooks == InitHooks /\ [][NextHooks]_vars

\* --------------------------------------------------------------- the resolver
\* Calls of the coordinate resolver on grids of several spacings.
MaxDist == 3
Distances ==
    {IntN(n) : n \in (0 - MaxDist)..MaxDist}
        \cup {FloatN(q) : q \in (0 - MaxDist * Quantum)..(MaxDist * Quantum)}
Endpoints == {NoneN, IntN(2), FloatN(0 - Quantum - 1), FloatN(2 * Quantum + 2)}

InitResolver ==
    /\ InitGrid
    /\ shape = <<NLine, 1, 1>>
    /\ src["s2"].name = NoName
    /\ \E gs \in GridSpacings : resolved = NoResolve(gs)

GridVars == <<shape, E, H, timesteps_passed, sources, boundaries, detectors,
              objects, attrs, src, call, ret, trace, zeroed, stepcalls>>

\* grid._handle_distance(distance)
HandleDistance(distance) ==
    /\ resolved' = [op |-> "_handle_distance", spacing |-> resolved.spacing,
                    arg |-> distance,
                    out |-> HandleDistanceGs(distance, resolved.spacing)]
    /\ UNCHANGED GridVars

\* grid._handle_distance(the result of the last _handle_distance call)
HandleDistanceAgain ==
    /\ resolved.op = "_handle_distance"
    /\ resolved' = [op |-> "again", spacing |-> resolved.spacing,
                    arg |-> resolved.out,
                    out |-> HandleDistanceGs(resolved.out, resolved.spacing)]
    /\ UNCHANGED GridVars

\* grid._handle_slice(slice(a, b)): each float endpoint through _handle_distance
HandleSlice(a, b) ==
    /\ resolved' = [op |-> "_handle_slice", spacing |-> resolved.spacing,
                    arg |-> <<a, b>>,
                    out |-> LET r == HandleSliceGs(Slice(a, b), resolved.spacing)
                            IN  <<r.start, r.stop>>]
    /\ UNCHANGED GridVars

NextResolver ==
    \/ \E d \in Distances : HandleDistance(d)
    \/ HandleDistanceAgain
    \/ \E a \in Endpoints, b \in Endpoints : HandleSlice(a, b)

SpecResolver == InitResolver /\ [][NextResolver]_vars

\* --------------------------------------------------------------- claims
\* floor((d / grid_spacing) + 0.5) for the float d = q / Quantum
RoundHalfUp(q, gs) == (2 * q + gs) \div (2 * gs)

\* C8: the distance -> index resolver returns an int unchanged, returns
\* floor(d / grid_spacing + 0.5) for every float d, negative ones included (also as
\* slice endpoints), and resolving a result again returns it unchanged.
C8_RoundHalfUp ==
    /\ resolved.op = "_handle_distance" =>
          IF IsInt(resolved.arg)
          THEN resolved.out = resolved.arg
          ELSE resolved.out = IntN(RoundHalfUp(resolved.arg[2], resolved.spacing))
    /\ resolved.op = "again" => resolved.out = resolved.arg
    /\ resolved.op = "_handle_slice" =>
          \A i \in 1..2 :
              IF IsFloat(resolved.arg[i])
              THEN resolved.out[i]
                       = IntN(RoundHalfUp(resolved.arg[i][2], resolved.spacing))
              ELSE resolved.out[i] = resolved.arg[i]

\* C2: run(total_time) that returns has called step() k times and raised
\* timesteps_passed by k, k = total_time for an int and k = _handle_time(total_time)
\* (round-half-up of total_time / timestep) for a float.
C2_RunCountsAsHandleTime ==
    [][call'.op = "run" /\ ret' = "ok" =>
          /\ timesteps_passed' - timesteps_passed
                = (IF IsInt(call'.arg) THEN call'.arg[2]
                   ELSE _handle_time(call'.arg)[2])
          /\ stepcalls' - stepcalls = timesteps_passed' - timesteps_passed]_vars

\* the place of a hook call in the order of one step()
Rank(ev) ==
    LET h == ev[1]
        k == KindOf(ev[2])
    IN  IF h = "update_phi_E" THEN 1
        ELSE IF h = "E += curl_H" THEN 2
        ELSE IF h = "update_E" /\ k = "object" THEN 3
        ELSE IF h = "update_E" /\ k = "boundary" THEN 4
        ELSE IF h = "update_E" THEN 5
        ELSE IF h = "detect_E" THEN 6
        ELSE IF h = "update_phi_H" THEN 7
        ELSE IF h = "H -= curl_E" THEN 8
        ELSE IF h = "update_H" /\ k = "object" THEN 9
        ELSE IF h = "update_H" /\ k = "boundary" THEN 10
        ELSE IF h = "update_H" THEN 11
        ELSE IF h = "detect_H" THEN 12
        ELSE 13

\* who is called at each place: a collection of the grid, or the grid itself
Called(r, bs, os, ss, ds) ==
    IF r \in {1, 4, 7, 10} THEN bs
    ELSE IF r \in {3, 9} THEN os
    ELSE IF r \in {5, 11} THEN ss
    ELSE IF r \in {6, 12} THEN ds
    ELSE <<"grid">>

\* the entries of E a registered LineSource names
SourceEntries ==
    {e \in Entries(shape) :
        /\ e[4] = 2
        /\ \E i \in 1..Len(sources) :
              /\ sources[i] \in SourceIds
              /\ \E j \in 1..Len(src[sources[i]].x) :
                    /\ e[1] = Wrap(src[sources[i]].x[j], shape[1])
                    /\ e[2] = Wrap(src[sources[i]].y[j], shape[2])
                    /\ e[3] = Wrap(src[sources[i]].z[j], shape[3])}

\* C1: a step() that returns has made its hook calls in the order boundaries'
\* update_phi_E, E += curl_H(H of before the step), objects' update_E, boundaries'
\* update_E, sources' update_E, detectors' detect_E, then the same for H with
\* curl_E of the just-updated E, every registered collaborator once per place and in
\* the order of its collection, and only then timesteps_passed += 1.
C1_StepOrder ==
    [][call'.op = "step" /\ ret' = "ok" =>
          /\ \A i \in 1..(Len(trace') - 1) : Rank(trace'[i]) <= Rank(trace'[i + 1])
          /\ \A r \in 1..13 :
                Cardinality({i \in 1..Len(trace') : Rank(trace'[i]) = r})
                    = Len(Called(r, boundaries, objects, sources, detectors))
          /\ \A i \in 1..Len(trace') :
                trace'[i][2]
                    = Called(Rank(trace'[i]), boundaries, objects, sources, detectors)
                          [i - Cardinality({j \in 1..Len(trace') :
                                               Rank(trace'[j]) < Rank(trace'[i])})]
          /\ \A e \in Entries(shape) \ SourceEntries :
                E'[e] = FAdd(E[e], FMul(courant_number * inverse_permittivity,
                                        curl_H(H, shape)[e]))
          /\ \A e \in Entries(shape) :
                H'[e] = FSub(H[e], FMul(courant_number * inverse_permeability,
                                        curl_E(E', shape)[e]))
          /\ timesteps_passed' = timesteps_passed + 1]_vars

\* C1 witness: a step of a grid with a boundary, an object, a detector and a source
C1_Witness ==
    /\ call.op = "step"
    /\ ret = "ok"
    /\ Len(boundaries) > 0 /\ Len(objects) > 0 /\ Len(detectors) > 0
    /\ Len(sources) > 0
    /\ Len(trace) = 13
    /\ timesteps_passed = 2

\* the collection add_<kind> stores in
CollOfAdd(op) ==
    IF op = "add_source" THEN sources ELSE IF op = "add_boundary" THEN boundaries
    ELSE IF op = "add_detector" THEN detectors ELSE objects

\* C4: each add_source / add_boundary / add_detector / add_object(name, c)
\* completes without error and leaves c in the collection of its kind.
C4_AddCompletes ==
    call.op \in {"add_source", "add_boundary", "add_detector", "add_object"} =>
        /\ ret = "ok"
        /\ \E i \in 1..Len(CollOfAdd(call.op)) : CollOfAdd(call.op)[i] = call.who

\* the grid a fresh one with the same collaborators is after n steps
Fresh(n) == steps(Zeros(shape), Zeros(shape), 0, n, <<>>)

\* C3: reset() sets E, H and timesteps_passed to zero and leaves the collections
\* and every source's x, y, z, period and profile as they were; and the steps made
\* after a reset() leave E, H and timesteps_passed as the same number of steps leave
\* a fresh grid with the same collaborators.
C3_ResetEquivalence ==
    [][/\ call'.op = "reset" =>
             /\ E' = Zeros(shape) /\ H' = Zeros(shape) /\ timesteps_passed' = 0
             /\ sources' = sources /\ boundaries' = boundaries
             /\ detectors' = detectors /\ objects' = objects /\ src' = src
       /\ zeroed' /\ stepcalls' = timesteps_passed' =>
             /\ E' = Fresh(timesteps_passed').E
             /\ H' = Fresh(timesteps_passed').H
             /\ Fresh(timesteps_passed').t = timesteps_passed']_vars

\* C5: grid[key] = c for a collaborator c of name n fails with the naming-conflict
\* error when the grid has an attribute n already (another collaborator's, c's own
\* from an earlier registration, or a built-in one), and the attribute stays what
\* it was; when the grid has no attribute n there is no naming conflict, n names c
\* afterwards, and the attachment at a cell of the grid succeeds.
C5_NamingConflict ==
    [][call'.op = "setitem" /\ Len(call'.key.k) <= 3 /\ call'.who \in SourceIds =>
          LET c == call'.who
              n == src[c].name
          IN  IF n = NoName
              THEN /\ attrs' = attrs
                   /\ ret' # "ValueError"
                   /\ call'.key = PointKey => ret' = "ok"
              ELSE IF attrs[n] # "unset"
              THEN ret' = "ValueError" /\ attrs' = attrs
              ELSE /\ ret' # "ValueError"
                   /\ attrs' = [attrs EXCEPT ![n] = c]
                   /\ call'.key = PointKey => ret' = "ok"]_vars

\* C5 witness: s2, of the name s1 was registered under, has been refused
C5_Witness ==
    /\ call.op = "setitem"
    /\ call.who = "s2"
    /\ ret = "ValueError"
    /\ src["s2"].name = "src"
    /\ attrs["src"] = "s1"

\* C6: in every step E is what the grid's own arithmetic makes it, E + curl_H(H),
\* and H what it makes it, H - curl_E(E): no collaborator hook writes an entry.
C6_OnlyGridWrites ==
    [][call'.op = "step" =>
          /\ E' = GridUpdateE(E, H)
          /\ ret' = "ok" => H' = GridUpdateH(E', H)]_vars

\* C6 as amended: in every step, E differs from the grid's own arithmetic only in
\* the z component at cells of registered LineSources, whose update_E adds to
\* grid.E directly; H is written by the grid's own arithmetic alone.
C6_SourcesWriteTheirCells ==
    [][call'.op = "step" =>
          /\ \A e \in Entries(shape) :
                E'[e] # GridUpdateE(E, H)[e] => e \in SourceEntries
          /\ H' = IF ret' = "ok" THEN GridUpdateH(E', H) ELSE H]_vars

\* C6 witness: after two steps of a grid with one source, E at a cell of the source
\* holds what the source added
C6_Witness ==
    /\ call.op = "step"
    /\ ret = "ok"
    /\ stepcalls = 2
    /\ timesteps_passed = 2
    /\ Len(sources) = 1
    /\ \E e \in SourceEntries : E[e] > 0 /\ ~IsNaN(E[e])

\* the source of the claim: the cells x = 0..9, y = z = 0
IsLine(s) ==
    /\ s.hasprofile
    /\ s.x = [i \in 1..10 |-> i - 1]
    /\ s.y = [i \in 1..10 |-> 0]
    /\ s.z = [i \in 1..10 |-> 0]
LineEntries == {<<i, 0, 0, 2>> : i \in 0..9}

\* C7: grid[0:10, 0, 0] = source on a grid of ten or more cells along x gives the
\* source the ten cells x = 0..9, y = z = 0; in a step of a grid whose sources are
\* such sources, E differs from the grid's own arithmetic only in the z component
\* at those cells, at every one of them when the sine is not zero, and H is
\* the grid's own arithmetic alone.
C7_LineSource ==
    [][/\ (/\ call'.op = "setitem"
           /\ call'.key = LineKey
           /\ shape[1] >= 10
           /\ ret' # "ValueError") =>
              ret' = "ok" /\ IsLine(src'[call'.who])
       /\ (/\ call'.op = "step"
           /\ shape[1] >= 10
           /\ Len(sources) > 0
           /\ \A i \in 1..Len(sources) : IsLine(src[sources[i]])) =>
              /\ ret' = "ok"
              /\ \A e \in Entries(shape) :
                    E'[e] # GridUpdateE(E, H)[e] => e \in LineEntries
              /\ Sin(timesteps_passed, src[sources[1]].period[2]) # 0 =>
                    \A e \in LineEntries :
                        ~IsNaN(GridUpdateE(E, H)[e]) => E'[e] # GridUpdateE(E, H)[e]
              /\ H' = GridUpdateH(E', H)]_vars

\* C7 witness: a step has made the source write its last cell, x = 9
C7_Witness ==
    /\ call.op = "step"
    /\ ret = "ok"
    /\ sources = <<"s1">>
    /\ IsLine(src["s1"])
    /\ E[<<9, 0, 0, 2>>] > 0
    /\ ~IsNaN(E[<<9, 0, 0, 2>>])
    /\ E[<<9, 0, 0, 1>>] = 0

\* C9: grid[key] = c with a key of more than 3 axis keys fails with KeyError; with
\* a key of 1 or 2 axis keys, or a key that is no tuple, the missing axes stand for
\* the entire axis and the attachment of a LineSource succeeds (but for a naming
\* conflict).
C9_SetItemAttaches ==
    call.op = "setitem" =>
        IF Len(call.key.k) > 3
        THEN ret = "KeyError"
        ELSE Len(call.key.k) < 3 => ret \in {"ok", "ValueError"}

\* C10: a source whose registration failed is not in grid._sources, and no step()
\* or run() raises.
C10_FailedRegistrationLeavesGrid ==
    /\ \A id \in SourceIds :
          ~src[id].hasprofile => \A i \in 1..Len(sources) : sources[i] # id
    /\ call.op \in {"step", "run"} => ret = "ok"

====
